---- MODULE Spec2Model ----
(***************************************************************************)
(* A model of mojodep's dependency resolution and lockfile synthesis.      *)
(*                                                                         *)
(* Strings are sequences of one-character strings, so that the regular     *)
(* expressions, strip(), split() and substring tests of the source are     *)
(* computed character by character.  An optional value (Python's None or   *)
(* a value) is the empty sequence or a one-element sequence.               *)
(***************************************************************************)
EXTENDS Integers, Sequences, FiniteSets, TLC

VARIABLES
    \* resolve_keys_to_system_deps (mojodep_rosdep/discovery.py)
    stdout_lines,     \* the lines of the resolver's stdout iterated so far
    parser,           \* [current_key, current_source, resolved, raised]
    ppc               \* "loop" | "returned" | "raised" | "idle"

parseVars == <<stdout_lines, parser, ppc>>

VARIABLES
    \* on_lock_command (mojodep/lock.py)
    pc,                           \* the line on_lock_command has reached
    resolved_project_packages,    \* discover_packages()
    rosdeps,                      \* list_dependency_keys()
    resolved_rosdistro_packages,  \* resolve_keys_to_sources()
    rosdistro_keys,
    system_keys,
    resolved_system_keys,         \* resolve_keys_to_system_deps()
    lockfile,                     \* the Lockfile built, or None
    lock_file_on_disk             \* the content of mojodep.lock

lockVars == <<pc, resolved_project_packages, rosdeps,
              resolved_rosdistro_packages, rosdistro_keys, system_keys,
              resolved_system_keys, lockfile, lock_file_on_disk>>

VARIABLES
    \* extract_released_packages_and_versions (mojodep_rosdistro/resolve.py)
    tpc,                \* "fetch" | "compile" | "loop" | "returned" | "raised"
    release_repo_info,
    tags,               \* the TagInfo list _fetch_remote_tags returned
    tag_pattern,        \* the compiled pattern, or None
    tag_index,          \* the tag the loop is at
    released_packages,  \* package name -> ReleasedPackage
    exception           \* the exception raised, "" when none

extractVars == <<tpc, release_repo_info, tags, tag_pattern, tag_index,
                 released_packages, exception>>

VARIABLES
    \* get_keys_in_rosdistro (mojodep_rosdep/discovery.py)
    wpc,               \* "run" | "returned" | "raised"
    query_keys,        \* keys, in the order they are passed to rosdep
    query_distro,      \* distro
    query_lines,       \* result.stdout.splitlines()
    query_result,      \* the set returned
    query_exception

whereVars == <<wpc, query_keys, query_distro, query_lines, query_result,
               query_exception>>

VARIABLES
    \* extract_released_repos (mojodep_rosdistro/resolve.py)
    xpc,           \* "load" | "loop" | "returned"
    distro_data,   \* yaml.safe_load(f)
    repo_items,    \* the names of distro_data["repositories"] still to visit
    extraction     \* [release_info, invalid_repos]

reposVars == <<xpc, distro_data, repo_items, extraction>>

VARIABLES
    \* get_or_build_released_package_cache (mojodep_rosdistro/resolve.py)
    bpc,              \* "collect" | "returned" | "raised"
    valid_repos,      \* set(release_info.values()), in its iteration order
    units,            \* the unit of each repository: queued, done or raised
    next_result,      \* the result the coordinating thread waits for
    build_exception,
    all_packages      \* the set of ReleasedPackage built (the catalog)

buildVars == <<bpc, valid_repos, units, next_result, build_exception>>

VARIABLES
    \* get_or_clone_rosdistro_repo (mojodep_rosdistro/resolve.py)
    cpc,              \* "ready" | "called" | "returned" | "raised" | "idle"
    repo_path_exists, \* config.ROSDISTRO_REPO_PATH.exists()
    repo,             \* what the last call returned: None, "existing" or "cloned"
    calls,            \* the calls made so far
    clones,           \* the clones performed so far
    removals          \* how often the path has been removed so far

cloneVars == <<cpc, repo_path_exists, repo, calls, clones, removals>>

vars == <<parseVars, lockVars, extractVars, whereVars, reposVars, buildVars,
          all_packages, cloneVars>>

None == <<>>
Some(x) == <<x>>

(***************************************************************************)
(* Each specification below runs one part of the program; the variables of *)
(* the other parts stay at their idle values.                              *)
(***************************************************************************)
ParseIdle ==
    /\ stdout_lines = <<>>
    /\ parser = None
    /\ ppc = "idle"

LockIdle ==
    /\ pc = "idle"
    /\ resolved_project_packages = <<>>
    /\ rosdeps = {}
    /\ resolved_rosdistro_packages = {}
    /\ rosdistro_keys = {}
    /\ system_keys = {}
    /\ resolved_system_keys = <<>>
    /\ lockfile = None
    /\ lock_file_on_disk = None

ExtractIdle ==
    /\ tpc = "idle"
    /\ release_repo_info = None
    /\ tags = <<>>
    /\ tag_pattern = None
    /\ tag_index = 0
    /\ released_packages = <<>>
    /\ exception = ""

WhereIdle ==
    /\ wpc = "idle"
    /\ query_keys = <<>>
    /\ query_distro = <<>>
    /\ query_lines = <<>>
    /\ query_result = {}
    /\ query_exception = ""

ReposIdle ==
    /\ xpc = "idle"
    /\ distro_data = <<>>
    /\ repo_items = <<>>
    /\ extraction = <<>>

BuildIdle ==
    /\ bpc = "idle"
    /\ valid_repos = <<>>
    /\ units = <<>>
    /\ next_result = 0
    /\ build_exception = ""

CloneIdle ==
    /\ cpc = "idle"
    /\ repo_path_exists = FALSE
    /\ repo = None
    /\ calls = 0
    /\ clones = 0
    /\ removals = 0

othersParse ==
    <<lockVars, extractVars, whereVars, reposVars, buildVars, all_packages,
      cloneVars>>

othersLock ==
    <<parseVars, extractVars, whereVars, reposVars, buildVars, cloneVars>>

othersExtract ==
    <<parseVars, lockVars, whereVars, reposVars, buildVars, all_packages,
      cloneVars>>

othersWhere ==
    <<parseVars, lockVars, extractVars, reposVars, buildVars, all_packages,
      cloneVars>>

othersRepos ==
    <<parseVars, lockVars, extractVars, whereVars, buildVars, all_packages,
      cloneVars>>

othersBuild ==
    <<parseVars, lockVars, extractVars, whereVars, reposVars, cloneVars>>

othersClone ==
    <<parseVars, lockVars, extractVars, whereVars, reposVars, buildVars,
      all_packages>>

(***************************************************************************)
(* Strings                                                                 *)
(***************************************************************************)
Whitespace == {" ", "\t"}
IsSpace(c) == c \in Whitespace

SetMax(S) == CHOOSE x \in S : \A y \in S : y <= x

\* s.startswith(prefix)
StartsWith(s, prefix) ==
    /\ Len(s) >= Len(prefix)
    /\ SubSeq(s, 1, Len(prefix)) = prefix

\* the length of the longest run of non-whitespace characters of s from index i
RECURSIVE NonSpaceRun(_, _)
NonSpaceRun(s, i) ==
    IF i > Len(s) \/ IsSpace(s[i]) THEN 0 ELSE 1 + NonSpaceRun(s, i + 1)

\* s.split(): the maximal runs of non-whitespace characters, in order
RECURSIVE SplitFrom(_, _)
SplitFrom(s, i) ==
    IF i > Len(s) THEN <<>>
    ELSE IF IsSpace(s[i]) THEN SplitFrom(s, i + 1)
    ELSE LET n == NonSpaceRun(s, i)
         IN  <<SubSeq(s, i, i + n - 1)>> \o SplitFrom(s, i + n)

Split(s) == SplitFrom(s, 1)

(***************************************************************************)
(* resolve_keys_to_system_deps: the three regular expressions              *)
(***************************************************************************)
RosdepHeaderPrefix == <<"#","R","O","S","D","E","P","[">>

\* re_rosdep_header = ^#ROSDEP\[(?P<key>\S+)\]   (match(): anchored at the
\* start only; \S+ is greedy, so the key runs to the last "]" of the run)
re_rosdep_header(line) ==
    IF ~StartsWith(line, RosdepHeaderPrefix) THEN None
    ELSE LET first == Len(RosdepHeaderPrefix) + 1
             n     == NonSpaceRun(line, first)
             ends  == {k \in 1..(n - 1) : line[first + k] = "]"}
         IN  IF ends = {} THEN None
             ELSE Some(SubSeq(line, first, first + SetMax(ends) - 1))

\* re_rosdep_source = ^#(?P<source>\S+)$
re_rosdep_source(line) ==
    IF /\ Len(line) >= 2
       /\ line[1] = "#"
       /\ NonSpaceRun(line, 2) = Len(line) - 1
    THEN Some(Tail(line))
    ELSE None

\* re_rosdep_package_list = ^(\S+)(?:\s+(\S+))*$ ; the value is m.groups():
\* group 1 is the first token, group 2 the token of the LAST repetition
\* (None when the group never took part in the match)
re_rosdep_package_list(line) ==
    IF /\ Len(line) >= 1
       /\ ~IsSpace(line[1])
       /\ ~IsSpace(line[Len(line)])
    THEN LET tokens == Split(line)
         IN  Some(<<Some(tokens[1]),
                    IF Len(tokens) >= 2 THEN Some(tokens[Len(tokens)]) ELSE None>>)
    ELSE None

\* list(filter(None, groups)): drops None (and empty) groups
RECURSIVE FilterNone(_)
FilterNone(groups) ==
    IF groups = <<>> THEN <<>>
    ELSE IF Head(groups) = None \/ Head(groups) = Some(<<>>)
         THEN FilterNone(Tail(groups))
         ELSE <<Head(groups)[1]>> \o FilterNone(Tail(groups))

ResolvedRosdep(key, source, packages) ==
    [key |-> key, source |-> source, packages |-> packages]

(***************************************************************************)
(* resolve_keys_to_system_deps: the loop                                   *)
(***************************************************************************)
ParserStart ==
    [current_key |-> None, current_source |-> None, resolved |-> <<>>,
     raised |-> FALSE]

\* one iteration of "for line in result.stdout.splitlines()"
ParseLine(st, line) ==
    IF st.current_key = None THEN
        LET m == re_rosdep_header(line)
        IN  IF m = None THEN [st EXCEPT !.raised = TRUE]
            ELSE [st EXCEPT !.current_key = m]
    ELSE IF st.current_source = None THEN
        LET m == re_rosdep_source(line)
        IN  IF m = None THEN [st EXCEPT !.raised = TRUE]
            ELSE [st EXCEPT !.current_source = m]
    ELSE
        LET m == re_rosdep_package_list(line)
        IN  IF m = None THEN [st EXCEPT !.raised = TRUE]
            ELSE [st EXCEPT
                    !.resolved = Append(@, ResolvedRosdep(st.current_key[1],
                                              st.current_source[1],
                                              FilterNone(m[1]))),
                    !.current_key = None,
                    !.current_source = None]

\* a faulty variant: no test after the loop: the records read so far are returned
ParseEnd_NoCheck(st) == st

\* the test after the loop: a stream that stops inside a cycle
ParseEnd(st) ==
    IF st.current_key # None \/ st.current_source # None
    THEN [st EXCEPT !.raised = TRUE]
    ELSE st

\* the whole loop over a given stdout; an exception leaves the loop at once
RECURSIVE ParseLines(_, _)
ParseLines(st, lines) ==
    IF st.raised THEN st
    ELSE IF lines = <<>> THEN ParseEnd(st)
    ELSE ParseLines(ParseLine(st, Head(lines)), Tail(lines))

(***************************************************************************)
(* The resolver's output, line by line                                     *)
(***************************************************************************)
MaxLines == 6

HdrA   == RosdepHeaderPrefix \o <<"a","]">>
HdrB   == RosdepHeaderPrefix \o <<"b","]">>
SrcApt == <<"#","a","p","t">>
Pkgs1  == <<"p">>
Pkgs2  == <<"p"," ","q">>
Empty  == <<>>

LineSet ==
    {HdrA, HdrB, RosdepHeaderPrefix \o <<"]">>, SrcApt, Pkgs1, Pkgs2,
     <<"p"," ","\t","q"," ","r">>, <<" ","p">>, Empty}

InitParse ==
    /\ stdout_lines = <<>>
    /\ parser = ParserStart
    /\ ppc = "loop"
    /\ LockIdle /\ ExtractIdle /\ WhereIdle /\ ReposIdle /\ BuildIdle /\ all_packages = {}
    /\ CloneIdle

\* the loop body on the next line of stdout
ParseStep ==
    /\ ppc = "loop"
    /\ Len(stdout_lines) < MaxLines
    /\ \E line \in LineSet :
        /\ stdout_lines' = Append(stdout_lines, line)
        /\ parser' = ParseLine(parser, line)
        /\ ppc' = IF parser'.raised THEN "raised" ELSE "loop"
    /\ UNCHANGED othersParse

\* stdout is exhausted: the check after the loop, then return resolved
ParseFinish ==
    /\ ppc = "loop"
    /\ parser' = ParseEnd(parser)
    /\ ppc' = IF parser'.raised THEN "raised" ELSE "returned"
    /\ UNCHANGED stdout_lines
    /\ UNCHANGED othersParse

NextParse ==
    \/ ParseStep
    \/ ParseFinish

SpecParse == InitParse /\ [][NextParse]_vars

(***************************************************************************)
(* Names of the model                                                      *)
(***************************************************************************)
KeyA == <<"a">>
KeyB == <<"b">>
KeyC == <<"c">>
KeySet == {KeyA, KeyB, KeyC}

Url1 == <<"u","1">>
Url2 == <<"u","2">>

ReleasedPackage(name, release_repo_url, versions) ==
    [name |-> name, release_repo_url |-> release_repo_url, versions |-> versions]

(***************************************************************************)
(* _release_tag_pattern_to_regex                                           *)
(***************************************************************************)
Digits == {"0","1","2","3","4","5","6","7","8","9"}
\* \w and \d
WordChars ==
    {"a","b","c","d","e","f","g","h","i","j","k","l","m","n","o","p","q","r",
     "s","t","u","v","w","x","y","z","A","B","C","D","E","F","G","H","I","J",
     "K","L","M","N","O","P","Q","R","S","T","U","V","W","X","Y","Z"}
    \cup Digits \cup {"_"}

\* the characters re.escape puts a backslash before
SpecialChars ==
    {"(",")","[","]","{","}","?","*","+","-","|","^","$","\\",".","&","~","#",
     " ","\t"}

\* re.escape(pattern): every special character gets a backslash (the string
\* is escaped half by half)
RECURSIVE re_escape(_)
re_escape(s) ==
    IF s = <<>> THEN <<>>
    ELSE IF Len(s) = 1 THEN
        (IF s[1] \in SpecialChars THEN <<"\\", s[1]>> ELSE s)
    ELSE LET half == Len(s) \div 2
         IN  re_escape(SubSeq(s, 1, half)) \o re_escape(SubSeq(s, half + 1, Len(s)))

\* the "in" test of two strings: sub occurs in s
Contains(s, sub) ==
    \E i \in 1..(Len(s) - Len(sub) + 1) : SubSeq(s, i, i + Len(sub) - 1) = sub


SetMin(S) == CHOOSE x \in S : \A y \in S : x <= y

\* the indices at which sub occurs in s
Occurrences(s, sub) ==
    {i \in 1..(Len(s) - Len(sub) + 1) : SubSeq(s, i, i + Len(sub) - 1) = sub}

\* s.replace(old, new): the leftmost occurrence of old, then those after it
RECURSIVE Replace(_, _, _)
Replace(s, old, new) ==
    LET found == Occurrences(s, old)
    IN  IF found = {} THEN s
        ELSE LET i == SetMin(found)
             IN  SubSeq(s, 1, i - 1) \o new
                 \o Replace(SubSeq(s, i + Len(old), Len(s)), old, new)

PackagePlaceholder == <<"{","p","a","c","k","a","g","e","}">>
VersionPlaceholder == <<"{","v","e","r","s","i","o","n","}">>
EscapedPackagePlaceholder == <<"\\","{","p","a","c","k","a","g","e","\\","}">>
EscapedVersionPlaceholder == <<"\\","{","v","e","r","s","i","o","n","\\","}">>

VersionRegex ==
    <<"(","?","P","<","v","e","r","s","i","o","n","_","m","a","j",">","\\","d","+",")",
      "\\",".",
      "(","?","P","<","v","e","r","s","i","o","n","_","m","i","n",">","\\","d","+",")",
      "\\",".",
      "(","?","P","<","v","e","r","s","i","o","n","_","p","a","t","c","h",">","\\","d","+",")",
      "-",
      "(","?","P","<","v","e","r","s","i","o","n","_","i","n","c","r","e","m","e","n","t",">","\\","d","+",")">>
PackageRegex ==
    <<"(","?","P","<","p","a","c","k","a","g","e","_","n","a","m","e",">","\\","w","+",")">>

package_name      == <<"p","a","c","k","a","g","e","_","n","a","m","e">>
version_maj       == <<"v","e","r","s","i","o","n","_","m","a","j">>
version_min       == <<"v","e","r","s","i","o","n","_","m","i","n">>
version_patch     == <<"v","e","r","s","i","o","n","_","p","a","t","c","h">>
version_increment == <<"v","e","r","s","i","o","n","_","i","n","c","r","e","m","e","n","t">>

\* the index of the first c in s at or after i (0: none)
RECURSIVE IndexFrom(_, _, _)
IndexFrom(s, c, i) ==
    IF i > Len(s) THEN 0
    ELSE IF s[i] = c THEN i
    ELSE IndexFrom(s, c, i + 1)

\* re.compile, for the regular expressions the substitution can produce: a
\* backslash makes the next character a literal, "(?P<name>\d+)" and
\* "(?P<name>\w+)" are named groups of one greedy class, any other character
\* is a literal.  The value is the sequence of the elements.
RECURSIVE ParseRegex(_, _)
ParseRegex(s, i) ==
    IF i > Len(s) THEN <<>>
    ELSE IF s[i] = "\\" THEN
        <<[type |-> "literal", char |-> s[i + 1]]>> \o ParseRegex(s, i + 2)
    ELSE IF s[i] = "(" THEN
        LET close == IndexFrom(s, ">", i)
        IN  <<[type |-> "group", name |-> SubSeq(s, i + 4, close - 1),
               class |-> s[close + 2]]>>
            \o ParseRegex(s, close + 5)
    ELSE <<[type |-> "literal", char |-> s[i]]>> \o ParseRegex(s, i + 1)

\* re.compile raises re.error ("redefinition of group name") when two groups
\* have one name
re_compile(s) ==
    LET elements == ParseRegex(s, 1)
        groups == {j \in 1..Len(elements) : elements[j].type = "group"}
    IN  IF \E i, j \in groups : i # j /\ elements[i].name = elements[j].name
        THEN [error |-> "re.error", elements |-> <<>>]
        ELSE [error |-> "", elements |-> elements]

\* a faulty variant: the test for {version} is left out
release_tag_pattern_to_regex_NoVersionTest(pattern) ==
    LET escaped == re_escape(pattern)
    IN  IF ~Contains(escaped, EscapedPackagePlaceholder)
        THEN [error |-> "ValueError", elements |-> <<>>]
        ELSE re_compile(Replace(Replace(escaped, EscapedVersionPlaceholder, VersionRegex),
                                EscapedPackagePlaceholder, PackageRegex))

\* _release_tag_pattern_to_regex
release_tag_pattern_to_regex(pattern) ==
    LET escaped == re_escape(pattern)
    IN  IF ~Contains(escaped, EscapedPackagePlaceholder)
        THEN [error |-> "ValueError", elements |-> <<>>]
        ELSE IF ~Contains(escaped, EscapedVersionPlaceholder)
        THEN [error |-> "ValueError", elements |-> <<>>]
        ELSE re_compile(Replace(Replace(escaped, EscapedVersionPlaceholder, VersionRegex),
                                EscapedPackagePlaceholder, PackageRegex))

(***************************************************************************)
(* tag_pattern.match(tag): a backtracking match from the start of the tag  *)
(***************************************************************************)

\* the length of the longest run of characters of the class from index i
RECURSIVE ClassRun(_, _, _)
ClassRun(s, i, class) ==
    IF i > Len(s) \/ s[i] \notin (IF class = "d" THEN Digits ELSE WordChars) THEN 0
    ELSE 1 + ClassRun(s, i + 1, class)

\* MatchAt: the elements from ei on match the tag from ti on; the value is
\* None or the captured groups (group name -> text).  A group first takes
\* the longest run and gives characters back one by one (MatchGroup) until
\* the rest matches.
RECURSIVE MatchAt(_, _, _, _)
RECURSIVE MatchGroup(_, _, _, _, _)
MatchAt(elements, ei, tag, ti) ==
    IF ei > Len(elements) THEN Some(<<>>)
    ELSE IF elements[ei].type = "literal" THEN
        IF ti <= Len(tag) /\ tag[ti] = elements[ei].char
        THEN MatchAt(elements, ei + 1, tag, ti + 1)
        ELSE None
    ELSE MatchGroup(elements, ei, tag, ti, ClassRun(tag, ti, elements[ei].class))

MatchGroup(elements, ei, tag, ti, k) ==
    IF k < 1 THEN None
    ELSE LET rest == MatchAt(elements, ei + 1, tag, ti + k)
         IN  IF rest # None
             THEN Some(<<[name |-> elements[ei].name,
                          text |-> SubSeq(tag, ti, ti + k - 1)]>> \o rest[1])
             ELSE MatchGroup(elements, ei, tag, ti, k - 1)

\* pattern.match(tag)
re_match(elements, tag) == MatchAt(elements, 1, tag, 1)

\* match.group(name)
Group(m, name) ==
    LET i == CHOOSE j \in 1..Len(m[1]) : m[1][j].name = name
    IN  m[1][i].text

DigitValue(c) ==
    CASE c = "0" -> 0 [] c = "1" -> 1 [] c = "2" -> 2 [] c = "3" -> 3
      [] c = "4" -> 4 [] c = "5" -> 5 [] c = "6" -> 6 [] c = "7" -> 7
      [] c = "8" -> 8 [] c = "9" -> 9

\* int(text)
RECURSIVE int(_)
int(text) ==
    IF text = <<>> THEN 0
    ELSE 10 * int(SubSeq(text, 1, Len(text) - 1)) + DigitValue(text[Len(text)])

(***************************************************************************)
(* _fetch_remote_tags and extract_released_packages_and_versions           *)
(***************************************************************************)
ReleaseRepoInfo(release_repo_url, release_tag_pattern) ==
    [release_repo_url |-> release_repo_url,
     release_tag_pattern |-> release_tag_pattern]

TagInfo(tag, ref) == [tag |-> tag, ref |-> ref]

BloomVersionNumber(major, minor, patch, increment) ==
    [major |-> major, minor |-> minor, patch |-> patch, increment |-> increment]

ReleasedPackageVersion(version, tag, commit_hash) ==
    [version |-> version, tag |-> tag, commit_hash |-> commit_hash]

RefsTags == <<"r","e","f","s","/","t","a","g","s","/">>

\* _fetch_remote_tags, from the lines of "git ls-remote --tags": a line that is
\* not two tokens, or whose reference is not under refs/tags/, is skipped
RECURSIVE fetch_remote_tags(_)
fetch_remote_tags(lines) ==
    IF lines = <<>> THEN <<>>
    ELSE LET parts == Split(Head(lines))
         IN  IF Len(parts) # 2 THEN fetch_remote_tags(Tail(lines))
             ELSE IF ~StartsWith(parts[2], RefsTags)
             THEN fetch_remote_tags(Tail(lines))
             ELSE <<TagInfo(SubSeq(parts[2], Len(RefsTags) + 1, Len(parts[2])),
                            parts[1])>>
                  \o fetch_remote_tags(Tail(lines))

\* stdout.strip().split("\n"): an empty output is one empty line
SplitLines(lines) == IF lines = <<>> THEN <<Empty>> ELSE lines

\* a faulty variant: the new version replaces the versions the package had
ExtractTag_Overwrite(dict, info, elements, tag_info) ==
    LET m == re_match(elements, tag_info.tag)
    IN  IF m = None THEN dict
        ELSE LET name == Group(m, package_name)
                 version == ReleasedPackageVersion(
                                BloomVersionNumber(int(Group(m, version_maj)),
                                                   int(Group(m, version_min)),
                                                   int(Group(m, version_patch)),
                                                   int(Group(m, version_increment))),
                                tag_info.tag, tag_info.ref)
             IN  [n \in DOMAIN dict \cup {name} |->
                    IF n = name
                    THEN ReleasedPackage(name, info.release_repo_url,
                                         {version})
                    ELSE dict[n]]

\* the body of "for tag_info in tags" (lines 256-286)
ExtractTag(dict, info, elements, tag_info) ==
    LET m == re_match(elements, tag_info.tag)
    IN  IF m = None THEN dict
        ELSE LET name == Group(m, package_name)
                 version_num ==
                     BloomVersionNumber(int(Group(m, version_maj)),
                                        int(Group(m, version_min)),
                                        int(Group(m, version_patch)),
                                        int(Group(m, version_increment)))
                 with_package ==
                     IF name \in DOMAIN dict THEN dict
                     ELSE [n \in DOMAIN dict \cup {name} |->
                            IF n = name
                            THEN ReleasedPackage(name,
                                     info.release_repo_url, {})
                            ELSE dict[n]]
                 version == ReleasedPackageVersion(version_num, tag_info.tag,
                                                   tag_info.ref)
             IN  [with_package EXCEPT ![name].versions = @ \cup {version}]

RECURSIVE ExtractTags(_, _, _, _)
ExtractTags(dict, info, elements, tag_list) ==
    IF tag_list = <<>> THEN dict
    ELSE ExtractTags(ExtractTag(dict, info, elements,
                                Head(tag_list)),
                     info, elements, Tail(tag_list))

EmptyDict == [n \in {} |-> n]

\* extract_released_packages_and_versions on the lines the remote listed:
\* the dict returned, or the exception raised
extract_released_packages_and_versions(info, lines) ==
    LET tag_list == fetch_remote_tags(SplitLines(lines))
    IN  IF tag_list = <<>> THEN [error |-> "", packages |-> EmptyDict]
        ELSE LET compiled ==
                     release_tag_pattern_to_regex(info.release_tag_pattern)
             IN  IF compiled.error # ""
                 THEN [error |-> compiled.error, packages |-> EmptyDict]
                 ELSE [error |-> "",
                       packages |-> ExtractTags(EmptyDict, info,
                                                compiled.elements, tag_list)]

(***************************************************************************)
(* The release repositories of the model                                   *)
(***************************************************************************)
MaxSegments == 3
MaxTags == 2

ReleaseHumble == <<"r","e","l","e","a","s","e","/","h","u","m","b","l","e","/">>
ExampleTemplate ==
    ReleaseHumble \o PackagePlaceholder \o <<"/">> \o VersionPlaceholder
ExampleCommit ==
    <<"8","8","d","5","e","8","5","c","7","9","5","f","d","0","f","8","1","5","a","2",
      "8","4","8","b","f","5","b","f","3","b","a","9","c","f","d","9","a","3","1","4">>
Rclcpp == <<"r","c","l","c","p","p">>
ExampleTag == ReleaseHumble \o Rclcpp \o <<"/","1","6",".","0",".","4","-","2">>

Segments == {PackagePlaceholder, VersionPlaceholder, <<"/">>, <<"r","-">>}

\* the templates made of up to n segments
RECURSIVE Templates(_)
Templates(n) ==
    IF n = 0 THEN {<<>>}
    ELSE LET shorter == Templates(n - 1)
         IN  shorter \cup {t \o seg : t \in shorter, seg \in Segments}

TemplateSet == Templates(MaxSegments) \cup {ExampleTemplate}

LsRemoteLine(ref, name) == ref \o <<"\t">> \o name

TagA      == <<"a","/","1",".","0",".","0","-","1">>
TagAPeel  == TagA \o <<"^","{","}">>
TagB      == <<"b","_","2","/","2",".","1","0",".","0","3","-","4">>

LsRemoteLines ==
    {LsRemoteLine(<<"c","1">>, RefsTags \o TagA),
     LsRemoteLine(<<"c","2">>, RefsTags \o TagAPeel),
     LsRemoteLine(<<"c","3">>, RefsTags \o TagB),
     LsRemoteLine(<<"c","4">>, RefsTags \o <<"j","u","n","k">>),
     LsRemoteLine(<<"c","5">>, RefsTags \o <<"r","-","a","1",".","0",".","0","-","1">>),
     LsRemoteLine(<<"c","6">>, <<"r","e","f","s","/","h","e","a","d","s","/">> \o TagA),
     LsRemoteLine(ExampleCommit, RefsTags \o ExampleTag)}

\* the listings of up to n lines
RECURSIVE Listings(_)
Listings(n) ==
    IF n = 0 THEN {<<>>}
    ELSE LET shorter == Listings(n - 1)
         IN  shorter \cup {Append(l, line) : l \in shorter, line \in LsRemoteLines}

ListingSet == Listings(MaxTags)

InitExtract ==
    /\ tpc = "fetch"
    /\ release_repo_info \in {ReleaseRepoInfo(Url1, t) : t \in TemplateSet}
    /\ tags = <<>>
    /\ tag_pattern = None
    /\ tag_index = 0
    /\ released_packages = EmptyDict
    /\ exception = ""
    /\ ParseIdle /\ LockIdle /\ WhereIdle /\ ReposIdle /\ BuildIdle /\ all_packages = {}
    /\ CloneIdle

\* line 245: the remote lists its tags; with no tag, {} is returned at once
FetchRemoteTags ==
    /\ tpc = "fetch"
    /\ \E lines \in ListingSet :
        tags' = fetch_remote_tags(SplitLines(lines))
    /\ tpc' = IF tags' = <<>> THEN "returned" ELSE "compile"
    /\ UNCHANGED <<release_repo_info, tag_pattern, tag_index, released_packages,
                   exception>>
    /\ UNCHANGED othersExtract

\* line 142-147: git ls-remote exits non-zero (check=True)
FetchRemoteTagsFails ==
    /\ tpc = "fetch"
    /\ tpc' = "raised"
    /\ exception' = "CalledProcessError"
    /\ UNCHANGED <<release_repo_info, tags, tag_pattern, tag_index,
                   released_packages>>
    /\ UNCHANGED othersExtract

\* line 253
CompileTagPattern ==
    /\ tpc = "compile"
    /\ LET compiled == release_tag_pattern_to_regex(release_repo_info.release_tag_pattern)
       IN  IF compiled.error # ""
           THEN /\ tpc' = "raised"
                /\ exception' = compiled.error
                /\ UNCHANGED <<tag_pattern, tag_index>>
           ELSE /\ tpc' = "loop"
                /\ tag_pattern' = Some(compiled.elements)
                /\ tag_index' = 1
                /\ UNCHANGED exception
    /\ UNCHANGED <<release_repo_info, tags, released_packages>>
    /\ UNCHANGED othersExtract

\* lines 256-286: the next tag
MatchNextTag ==
    /\ tpc = "loop"
    /\ tag_index <= Len(tags)
    /\ released_packages' = ExtractTag(released_packages, release_repo_info,
                                       tag_pattern[1], tags[tag_index])
    /\ tag_index' = tag_index + 1
    /\ UNCHANGED <<tpc, release_repo_info, tags, tag_pattern, exception>>
    /\ UNCHANGED othersExtract

\* line 288
ReturnReleasedPackages ==
    /\ tpc = "loop"
    /\ tag_index > Len(tags)
    /\ tpc' = "returned"
    /\ UNCHANGED <<release_repo_info, tags, tag_pattern, tag_index,
                   released_packages, exception>>
    /\ UNCHANGED othersExtract

NextExtract ==
    \/ FetchRemoteTags
    \/ FetchRemoteTagsFails
    \/ CompileTagPattern
    \/ MatchNextTag
    \/ ReturnReleasedPackages

SpecExtract == InitExtract /\ [][NextExtract]_vars

(***************************************************************************)
(* get_keys_in_rosdistro                                                   *)
(***************************************************************************)
MaxKeys == 2

\* a faulty variant: the line is compared as it is
strip_Nothing(s) == s

\* s.strip()
strip(s) ==
    LET kept == {i \in 1..Len(s) : ~IsSpace(s[i])}
    IN  IF kept = {} THEN <<>> ELSE SubSeq(s, SetMin(kept), SetMax(kept))

\* line 68
expected_distro_uri(distro) ==
    <<"h","t","t","p","s",":","/","/","r","a","w",".","g","i","t","h","u","b","u","s",
      "e","r","c","o","n","t","e","n","t",".","c","o","m","/","r","o","s","/","r","o",
      "s","d","i","s","t","r","o","/","m","a","s","t","e","r","/">>
    \o distro
    \o <<"/","d","i","s","t","r","i","b","u","t","i","o","n",".","y","a","m","l">>
Humble == <<"h","u","m","b","l","e">>

\* line 70: {key for key, uri in zip(keys, lines) if uri.strip() == expected}
KeysWithUri(keys, lines, expected) ==
    LET n == IF Len(keys) < Len(lines) THEN Len(keys) ELSE Len(lines)
    IN  {keys[i] : i \in {j \in 1..n : strip(lines[j]) = expected}}

\* the sequences over S of up to n elements
RECURSIVE SeqsUpTo(_, _)
SeqsUpTo(S, n) ==
    IF n = 0 THEN {<<>>}
    ELSE LET shorter == SeqsUpTo(S, n - 1)
         IN  shorter \cup {Append(q, x) : q \in shorter, x \in S}

\* lines "rosdep where-defined" can print
WhereDefinedLines ==
    {expected_distro_uri(Humble),
     expected_distro_uri(<<"r","o","l","l","i","n","g">>),
     expected_distro_uri(Humble) \o <<"x">>,
     <<" ">> \o expected_distro_uri(Humble) \o <<"\t">>,
     Empty}

InitWhere ==
    /\ wpc = "run"
    /\ query_keys \in SeqsUpTo(KeySet, MaxKeys)
    /\ query_distro \in {Humble, <<"r","o","l","l","i","n","g">>}
    /\ query_lines = <<>>
    /\ query_result = {}
    /\ query_exception = ""
    /\ ParseIdle /\ LockIdle /\ ExtractIdle /\ ReposIdle /\ BuildIdle /\ all_packages = {}
    /\ CloneIdle

\* lines 51-60: rosdep exits non-zero
WhereDefinedFails ==
    /\ wpc = "run"
    /\ wpc' = "raised"
    /\ query_exception' = "RuntimeError"
    /\ UNCHANGED <<query_keys, query_distro, query_lines, query_result>>
    /\ UNCHANGED othersWhere

\* lines 62-70: rosdep prints its lines; their number is tested, then each
\* key's line is compared with the expected URI
GetKeysInRosdistro ==
    /\ wpc = "run"
    /\ query_lines' \in SeqsUpTo(WhereDefinedLines, MaxKeys + 1)
    /\ IF Len(query_lines') # Len(query_keys)
       THEN /\ wpc' = "raised"
            /\ query_exception' = "ValueError"
            /\ UNCHANGED query_result
       ELSE /\ wpc' = "returned"
            /\ query_result' = KeysWithUri(query_keys, query_lines',
                                           expected_distro_uri(query_distro))
            /\ UNCHANGED query_exception
    /\ UNCHANGED <<query_keys, query_distro>>
    /\ UNCHANGED othersWhere

NextWhere ==
    \/ WhereDefinedFails
    \/ GetKeysInRosdistro

SpecWhere == InitWhere /\ [][NextWhere]_vars

(***************************************************************************)
(* extract_released_repos                                                  *)
(***************************************************************************)
MaxRepos == 2

INVALID_REPO_NO_RELEASE == "No release data"
INVALID_REPO_NO_RELEASE_REPO_URL == "No release repository URL"
INVALID_REPO_NO_RELEASE_TAG_PATTERN == "No release tag pattern"

\* a dict with the pair (key, value) set
DictSet(dict, key, value) ==
    [k \in DOMAIN dict \cup {key} |-> IF k = key THEN value ELSE dict[k]]

SlashTemplate == PackagePlaceholder \o <<"/">> \o VersionPlaceholder

\* the entries a repository can have in distribution.yaml: mappings, with or
\* without "release", "url", "tags" and "tags.release"
RepoDataSet ==
    {[doc |-> EmptyDict],
     [source |-> EmptyDict, release |-> EmptyDict],
     [release |-> [packages |-> EmptyDict]],
     [release |-> [url |-> Url1]],
     [release |-> [tags |-> [release |-> SlashTemplate]]],
     [release |-> [url |-> Url1, tags |-> EmptyDict]],
     [release |-> [url |-> Url2, tags |-> [devel |-> SlashTemplate]]],
     [release |-> [url |-> Url1, tags |-> [release |-> SlashTemplate]]],
     [release |-> [url |-> Url2, tags |-> [release |-> ExampleTemplate],
                   version |-> EmptyDict]]}

RepoNames == {<<"r","1">>, <<"r","2">>, <<"r","3">>, <<"r","4">>}

\* the documents yaml.safe_load can return: no "repositories" key, or up to
\* MaxRepos repositories
DistroDataSet ==
    {[type |-> "distribution"]}
    \cup {[repositories |-> repos] :
            repos \in UNION {[names -> RepoDataSet] :
                names \in {N \in SUBSET RepoNames : Cardinality(N) <= MaxRepos}}}

\* the orders in which a dict of these names can be iterated
Orders(names) ==
    {order \in SeqsUpTo(names, Cardinality(names)) :
        /\ Len(order) = Cardinality(names)
        /\ {order[i] : i \in 1..Len(order)} = names}

\* a faulty variant: the tag pattern is looked for before the URL
ExtractRepo_TagsFirst(result, repo_name, repo_data) ==
    IF "release" \notin DOMAIN repo_data THEN
        [result EXCEPT !.invalid_repos =
            DictSet(@, repo_name, INVALID_REPO_NO_RELEASE)]
    ELSE LET release_data == repo_data["release"]
         IN  IF \/ "tags" \notin DOMAIN release_data
                \/ "release" \notin DOMAIN release_data["tags"] THEN
                 [result EXCEPT !.invalid_repos =
                    DictSet(@, repo_name, INVALID_REPO_NO_RELEASE_TAG_PATTERN)]
             ELSE IF "url" \notin DOMAIN release_data THEN
                 [result EXCEPT !.invalid_repos =
                    DictSet(@, repo_name, INVALID_REPO_NO_RELEASE_REPO_URL)]
             ELSE
                 [result EXCEPT !.release_info =
                    DictSet(@, repo_name,
                            ReleaseRepoInfo(release_data["url"],
                                            release_data["tags"]["release"]))]

\* the body of "for repo_name, repo_data in ...items()" (lines 101-121)
ExtractRepo(result, repo_name, repo_data) ==
    IF "release" \notin DOMAIN repo_data THEN
        [result EXCEPT !.invalid_repos =
            DictSet(@, repo_name, INVALID_REPO_NO_RELEASE)]
    ELSE LET release_data == repo_data["release"]
         IN  IF "url" \notin DOMAIN release_data THEN
                 [result EXCEPT !.invalid_repos =
                    DictSet(@, repo_name, INVALID_REPO_NO_RELEASE_REPO_URL)]
             ELSE IF \/ "tags" \notin DOMAIN release_data
                     \/ "release" \notin DOMAIN release_data["tags"] THEN
                 [result EXCEPT !.invalid_repos =
                    DictSet(@, repo_name, INVALID_REPO_NO_RELEASE_TAG_PATTERN)]
             ELSE
                 [result EXCEPT !.release_info =
                    DictSet(@, repo_name,
                            ReleaseRepoInfo(release_data["url"],
                                            release_data["tags"]["release"]))]

RepoExtractionResult(release_info, invalid_repos) ==
    [release_info |-> release_info, invalid_repos |-> invalid_repos]

InitRepos ==
    /\ xpc = "load"
    /\ distro_data \in DistroDataSet
    /\ repo_items = <<>>
    /\ extraction = RepoExtractionResult(EmptyDict, EmptyDict)
    /\ ParseIdle /\ LockIdle /\ ExtractIdle /\ WhereIdle /\ BuildIdle /\ all_packages = {}
    /\ CloneIdle

\* lines 91-99: the document is loaded; without "repositories" the empty
\* result is returned
LoadDistribution ==
    /\ xpc = "load"
    /\ IF "repositories" \notin DOMAIN distro_data
       THEN /\ xpc' = "returned"
            /\ UNCHANGED repo_items
       ELSE /\ xpc' = "loop"
            /\ repo_items' \in Orders(DOMAIN distro_data["repositories"])
    /\ UNCHANGED <<distro_data, extraction>>
    /\ UNCHANGED othersRepos

\* lines 101-121: the next repository
ExtractNextRepo ==
    /\ xpc = "loop"
    /\ repo_items # <<>>
    /\ extraction' = ExtractRepo(extraction, Head(repo_items),
                                 distro_data["repositories"][Head(repo_items)])
    /\ repo_items' = Tail(repo_items)
    /\ UNCHANGED <<xpc, distro_data>>
    /\ UNCHANGED othersRepos

\* line 123
ReturnExtraction ==
    /\ xpc = "loop"
    /\ repo_items = <<>>
    /\ xpc' = "returned"
    /\ UNCHANGED <<distro_data, repo_items, extraction>>
    /\ UNCHANGED othersRepos

NextRepos ==
    \/ LoadDistribution
    \/ ExtractNextRepo
    \/ ReturnExtraction

SpecRepos == InitRepos /\ [][NextRepos]_vars

(***************************************************************************)
(* get_or_build_released_package_cache                                     *)
(***************************************************************************)
\* what a remote can list when a unit asks for its tags
RemoteListings ==
    {<<>>,
     <<LsRemoteLine(<<"c","1">>, RefsTags \o TagA)>>,
     <<LsRemoteLine(<<"c","3">>, RefsTags \o TagB)>>,
     <<LsRemoteLine(<<"c","4">>, <<"H","E","A","D">>)>>,
     <<LsRemoteLine(<<"c","1">>, RefsTags \o TagA),
       LsRemoteLine(<<"c","3">>, RefsTags \o TagB)>>}

\* the release repositories a distribution can declare
ReleaseRepoInfoSet ==
    {ReleaseRepoInfo(Url1, SlashTemplate),
     ReleaseRepoInfo(Url2, SlashTemplate),
     ReleaseRepoInfo(Url2, PackagePlaceholder)}

\* the values of a dict
Values(dict) == {dict[k] : k \in DOMAIN dict}

\* the unit of one repository, run by a worker of the pool: the stdout git
\* ls-remote gave it, and the dict extract_released_packages_and_versions
\* returns or its exception
RunUnitOn(info, lines) ==
    LET outcome == extract_released_packages_and_versions(info, lines)
    IN  IF outcome.error # ""
        THEN [state |-> "raised", exception |-> outcome.error, result |-> EmptyDict,
              stdout |-> Some(lines)]
        ELSE [state |-> "done", exception |-> "", result |-> outcome.packages,
              stdout |-> Some(lines)]

QueuedUnit ==
    [state |-> "queued", exception |-> "", result |-> EmptyDict, stdout |-> None]

\* a faulty variant: the packages of a result replace the catalog
UpdatePackages_Replace(packages, result) == Values(result)

\* all_packages.update(result.values())
UpdatePackages(packages, result) == packages \cup Values(result)

InitBuild ==
    /\ bpc = "collect"
    /\ \E valid \in {V \in SUBSET ReleaseRepoInfoSet : Cardinality(V) <= MaxRepos} :
        valid_repos \in Orders(valid)
    /\ units = [i \in 1..Len(valid_repos) |-> QueuedUnit]
    /\ next_result = 1
    /\ all_packages = {}
    /\ build_exception = ""
    /\ ParseIdle /\ LockIdle /\ ExtractIdle /\ WhereIdle /\ ReposIdle
    /\ CloneIdle

\* a worker runs the unit of one repository (lines 245-288); git ls-remote
\* answers with a listing
RunUnit ==
    /\ \E i \in 1..Len(valid_repos) :
        /\ units[i].state = "queued"
        /\ \E lines \in RemoteListings :
            units' = [units EXCEPT ![i] = RunUnitOn(valid_repos[i], lines)]
    /\ UNCHANGED <<bpc, valid_repos, next_result, all_packages, build_exception>>
    /\ UNCHANGED othersBuild

\* git ls-remote exits non-zero in the unit of one repository
RunUnitFails ==
    /\ \E i \in 1..Len(valid_repos) :
        /\ units[i].state = "queued"
        /\ units' = [units EXCEPT ![i] =
                [state |-> "raised", exception |-> "CalledProcessError",
                 result |-> EmptyDict, stdout |-> None]]
    /\ UNCHANGED <<bpc, valid_repos, next_result, all_packages, build_exception>>
    /\ UNCHANGED othersBuild

\* lines 306-308: the coordinating thread takes the next result, in the
\* order of submission, once its unit is over, and adds its packages
FoldResult ==
    /\ bpc = "collect"
    /\ next_result <= Len(valid_repos)
    /\ units[next_result].state = "done"
    /\ all_packages' = UpdatePackages(all_packages, units[next_result].result)
    /\ next_result' = next_result + 1
    /\ UNCHANGED <<bpc, valid_repos, units, build_exception>>
    /\ UNCHANGED othersBuild

\* a faulty variant: a result that is an exception is passed over
FoldRaises_Skip ==
    /\ bpc = "collect"
    /\ next_result <= Len(valid_repos)
    /\ units[next_result].state = "raised"
    /\ next_result' = next_result + 1
    /\ UNCHANGED <<bpc, valid_repos, units, all_packages, build_exception>>
    /\ UNCHANGED othersBuild

\* the next result is an exception: the iteration re-raises it
FoldRaises ==
    /\ bpc = "collect"
    /\ next_result <= Len(valid_repos)
    /\ units[next_result].state = "raised"
    /\ bpc' = "raised"
    /\ build_exception' = units[next_result].exception
    /\ UNCHANGED <<valid_repos, units, next_result, all_packages>>
    /\ UNCHANGED othersBuild

\* line 310
ReturnAllPackages ==
    /\ bpc = "collect"
    /\ next_result > Len(valid_repos)
    /\ bpc' = "returned"
    /\ UNCHANGED <<valid_repos, units, next_result, all_packages, build_exception>>
    /\ UNCHANGED othersBuild

NextBuild ==
    \/ RunUnit
    \/ RunUnitFails
    \/ FoldResult
    \/ FoldRaises
    \/ ReturnAllPackages

SpecBuild == InitBuild /\ [][NextBuild]_vars

\* the workers of the pool run every unit submitted, and the loop of the
\* coordinating thread goes on as long as it can
SpecBuildFair == SpecBuild /\ WF_vars(NextBuild)

(***************************************************************************)
(* on_lock_command                                                         *)
(***************************************************************************)
MaxRecords == 2

\* catalogs the release-index build can return: a set of ReleasedPackage, in
\* which two repositories may have released a package of the same name
CatalogPackages ==
    LET versions ==
            {ReleasedPackageVersion(BloomVersionNumber(1, 0, 0, 1), TagA, <<"c","1">>)}
    IN  {ReleasedPackage(KeyA, Url1, versions),
         ReleasedPackage(KeyA, Url2, versions),
         ReleasedPackage(KeyB, Url1, versions),
         ReleasedPackage(<<"x">>, Url2, versions)}

\* outputs of "colcon list": packages of the workspace
ColconSourcePackage(name, path, type) ==
    [name |-> name, path |-> path, type |-> type]

ProjectPackageLists ==
    {<<>>, <<ColconSourcePackage(<<"w">>, <<"/","w">>, <<"r">>)>>}

\* outputs of "rosdep resolve": up to MaxRecords records, or a cut-off stream
RECURSIVE RecordStreams(_)
RecordStreams(n) ==
    IF n = 0 THEN {<<>>}
    ELSE LET shorter == RecordStreams(n - 1)
         IN  shorter \cup
             {s \o <<h, SrcApt, Pkgs1>> :
                s \in {t \in shorter : Len(t) = 3 * (n - 1)},
                h \in {HdrA, HdrB, RosdepHeaderPrefix \o KeyC \o <<"]">>}}

ResolverOutputs == RecordStreams(MaxRecords) \cup {<<HdrA>>, <<HdrA, SrcApt>>}

\* a faulty variant: every released package is returned, whether a key asks for it or not
resolve_keys_to_sources_NoFilter(packages, keys) == packages

\* resolve_keys_to_sources: {pkg for pkg in all_packages if pkg.name in keys}
resolve_keys_to_sources(packages, keys) ==
    {pkg \in packages : pkg.name \in keys}

\* {pkg.name: pkg for pkg in <set>}: the dicts a dict comprehension over a set
\* can build; of two packages of one name the one iterated later stays, and
\* the iteration order of a set is not fixed
DictsByName(packages) ==
    LET names == {pkg.name : pkg \in packages}
    IN  {d \in [names -> packages] : \A n \in names : d[n].name = n}

\* {pkg.key: pkg for pkg in <list>}: the last record of a key stays
DictByKey(records) ==
    LET keys == {records[i].key : i \in 1..Len(records)}
    IN  [k \in keys |->
            records[SetMax({i \in 1..Len(records) : records[i].key = k})]]

\* {pkg.name: pkg for pkg in <list>}
DictByNameOfList(packages) ==
    LET names == {packages[i].name : i \in 1..Len(packages)}
    IN  [n \in names |->
            packages[SetMax({i \in 1..Len(packages) : packages[i].name = n})]]

Lockfile(version, project_packages, rosdistro_packages, system_packages) ==
    [version |-> version,
     project_packages |-> project_packages,
     rosdistro_packages |-> rosdistro_packages,
     system_packages |-> system_packages]

\* the content of a mojodep.lock written by an earlier run
OldLockFile == <<"old">>

Init ==
    /\ pc = "start"
    /\ resolved_project_packages = <<>>
    /\ rosdeps = {}
    /\ all_packages = {}
    /\ resolved_rosdistro_packages = {}
    /\ rosdistro_keys = {}
    /\ system_keys = {}
    /\ resolved_system_keys = <<>>
    /\ lockfile = None
    /\ lock_file_on_disk \in {None, Some(OldLockFile)}
    /\ ParseIdle /\ ExtractIdle /\ WhereIdle /\ ReposIdle /\ BuildIdle
    /\ CloneIdle

\* a call raises: on_lock_command ends with the exception
Raise ==
    /\ pc \in {"start", "discovered", "listed", "partitioned", "assembled"}
    /\ pc' = "failed"
    /\ UNCHANGED <<resolved_project_packages, rosdeps, all_packages,
                   resolved_rosdistro_packages, rosdistro_keys, system_keys,
                   resolved_system_keys, lockfile, lock_file_on_disk>>
    /\ UNCHANGED othersLock

\* line 22
DiscoverPackages ==
    /\ pc = "start"
    /\ resolved_project_packages' \in ProjectPackageLists
    /\ pc' = "discovered"
    /\ UNCHANGED <<rosdeps, all_packages, resolved_rosdistro_packages,
                   rosdistro_keys, system_keys, resolved_system_keys,
                   lockfile, lock_file_on_disk>>
    /\ UNCHANGED othersLock

\* line 23
ListDependencyKeys ==
    /\ pc = "discovered"
    /\ rosdeps' \in SUBSET KeySet
    /\ pc' = "listed"
    /\ UNCHANGED <<resolved_project_packages, all_packages,
                   resolved_rosdistro_packages, rosdistro_keys, system_keys,
                   resolved_system_keys, lockfile, lock_file_on_disk>>
    /\ UNCHANGED othersLock

\* lines 25-30: the catalog is built, the keys it serves are the source keys
\* and the others the system keys
ResolveKeysToSources ==
    /\ pc = "listed"
    /\ all_packages' \in SUBSET CatalogPackages
    /\ resolved_rosdistro_packages' = resolve_keys_to_sources(all_packages', rosdeps)
    /\ rosdistro_keys' = {pkg.name : pkg \in resolved_rosdistro_packages'}
    /\ system_keys' = rosdeps \ rosdistro_keys'
    /\ pc' = "partitioned"
    /\ UNCHANGED <<resolved_project_packages, rosdeps, resolved_system_keys,
                   lockfile, lock_file_on_disk>>
    /\ UNCHANGED othersLock

\* lines 32-34: the resolver's stdout is parsed; a parse error ends the command
ResolveKeysToSystemDeps ==
    /\ pc = "partitioned"
    /\ \E out \in ResolverOutputs :
        LET st == ParseLines(ParserStart, out)
        IN  IF st.raised
            THEN /\ pc' = "failed"
                 /\ UNCHANGED resolved_system_keys
            ELSE /\ pc' = "resolved"
                 /\ resolved_system_keys' = st.resolved
    /\ UNCHANGED <<resolved_project_packages, rosdeps, all_packages,
                   resolved_rosdistro_packages, rosdistro_keys, system_keys,
                   lockfile, lock_file_on_disk>>
    /\ UNCHANGED othersLock

\* lines 36-45: the three dicts and the Lockfile
Assemble ==
    /\ pc = "resolved"
    /\ \E by_name \in DictsByName(resolved_rosdistro_packages) :
        lockfile' = Some(Lockfile(0,
                                  DictByNameOfList(resolved_project_packages),
                                  by_name,
                                  DictByKey(resolved_system_keys)))
    /\ pc' = "assembled"
    /\ UNCHANGED <<resolved_project_packages, rosdeps, all_packages,
                   resolved_rosdistro_packages, rosdistro_keys, system_keys,
                   resolved_system_keys, lock_file_on_disk>>
    /\ UNCHANGED othersLock

\* a faulty variant: the file is opened for writing before the first step
OpenLockFile_First ==
    /\ pc = "start"
    /\ lock_file_on_disk' = Some(<<>>)
    /\ UNCHANGED <<pc, resolved_project_packages, rosdeps, all_packages,
                   resolved_rosdistro_packages, rosdistro_keys, system_keys,
                   resolved_system_keys, lockfile>>
    /\ UNCHANGED othersLock

\* line 47: open("mojodep.lock", "wb") creates the file or empties it
OpenLockFile ==
    /\ pc = "assembled"
    /\ lock_file_on_disk' = Some(<<>>)
    /\ pc' = "opened"
    /\ UNCHANGED <<resolved_project_packages, rosdeps, all_packages,
                   resolved_rosdistro_packages, rosdistro_keys, system_keys,
                   resolved_system_keys, lockfile>>
    /\ UNCHANGED othersLock

\* line 48: serde.dump uses the name tosholi, which serde.py never imports:
\* the call raises NameError and nothing is written to the opened file
Dump ==
    /\ pc = "opened"
    /\ pc' = "failed"
    /\ UNCHANGED <<resolved_project_packages, rosdeps, all_packages,
                   resolved_rosdistro_packages, rosdistro_keys, system_keys,
                   resolved_system_keys, lockfile, lock_file_on_disk>>
    /\ UNCHANGED othersLock

Next ==
    \/ DiscoverPackages
    \/ ListDependencyKeys
    \/ ResolveKeysToSources
    \/ ResolveKeysToSystemDeps
    \/ Assemble
    \/ OpenLockFile
    \/ Dump
    \/ Raise

Spec == Init /\ [][Next]_vars

(***************************************************************************)
(* get_or_clone_rosdistro_repo                                             *)
(***************************************************************************)
MaxCalls == 4

\* a faulty variant: the repository is cloned whether the path exists or not
get_or_clone_rosdistro_repo_AlwaysClone(exists) == "clone"

\* lines 29-33: the existing repository is opened when the path exists, and
\* cloned otherwise
get_or_clone_rosdistro_repo(exists) == IF exists THEN "open" ELSE "clone"

\* the path exists (a repository cloned earlier) or not when the program starts
InitClone ==
    /\ cpc = "ready"
    /\ repo_path_exists \in BOOLEAN
    /\ repo = None
    /\ calls = 0
    /\ clones = 0
    /\ removals = 0
    /\ ParseIdle /\ LockIdle /\ ExtractIdle /\ WhereIdle /\ ReposIdle /\ BuildIdle
    /\ all_packages = {}

\* a call of get_or_clone_rosdistro_repo begins (lines 26-27)
CallGetOrClone ==
    /\ cpc \in {"ready", "returned", "raised"}
    /\ calls < MaxCalls
    /\ cpc' = "called"
    /\ calls' = calls + 1
    /\ repo' = None
    /\ UNCHANGED <<repo_path_exists, clones, removals>>
    /\ UNCHANGED othersClone

\* lines 29-30: return Repo(repo_path)
ReturnExistingRepo ==
    /\ cpc = "called"
    /\ get_or_clone_rosdistro_repo(repo_path_exists) = "open"
    /\ cpc' = "returned"
    /\ repo' = Some("existing")
    /\ UNCHANGED <<repo_path_exists, calls, clones, removals>>
    /\ UNCHANGED othersClone

\* lines 32-33: Repo.clone_from creates the path and returns the repository
CloneRepo ==
    /\ cpc = "called"
    /\ get_or_clone_rosdistro_repo(repo_path_exists) = "clone"
    /\ cpc' = "returned"
    /\ repo' = Some("cloned")
    /\ repo_path_exists' = TRUE
    /\ clones' = clones + 1
    /\ UNCHANGED <<calls, removals>>
    /\ UNCHANGED othersClone

\* line 33: git clone fails (no network); git removes what it created, so
\* the path is as it was
CloneRepoFails ==
    /\ cpc = "called"
    /\ get_or_clone_rosdistro_repo(repo_path_exists) = "clone"
    /\ cpc' = "raised"
    /\ UNCHANGED <<repo_path_exists, repo, calls, clones, removals>>
    /\ UNCHANGED othersClone

\* between two calls the path is removed, as test_clone does with
\* shutil.rmtree
RemoveRepoPath ==
    /\ cpc \in {"ready", "returned", "raised"}
    /\ repo_path_exists
    /\ removals < MaxCalls
    /\ repo_path_exists' = FALSE
    /\ removals' = removals + 1
    /\ cpc' = "ready"
    /\ UNCHANGED <<repo, calls, clones>>
    /\ UNCHANGED othersClone

NextClone ==
    \/ CallGetOrClone
    \/ ReturnExistingRepo
    \/ CloneRepo
    \/ CloneRepoFails
    \/ RemoveRepoPath

SpecClone == InitClone /\ [][NextClone]_vars

(***************************************************************************)
(* Claims about the resolver output parser                                 *)
(***************************************************************************)
NoSpaceIn(line) == \A i \in 1..Len(line) : ~IsSpace(line[i])

\* the three kinds of line of the record format
IsHeaderLine(line) ==
    /\ StartsWith(line, RosdepHeaderPrefix)
    /\ Len(line) >= Len(RosdepHeaderPrefix) + 2
    /\ line[Len(line)] = "]"
    /\ NoSpaceIn(line)

IsSourceLine(line) ==
    /\ Len(line) >= 2
    /\ line[1] = "#"
    /\ NoSpaceIn(line)
    /\ ~IsHeaderLine(line)

IsPackageListLine(line) ==
    /\ Len(line) >= 1
    /\ line[1] # "#"
    /\ ~IsSpace(line[1])
    /\ ~IsSpace(line[Len(line)])

Awaited(st) ==
    IF st.current_key = None THEN "header"
    ELSE IF st.current_source = None THEN "source"
    ELSE "packages"

IsOfKind(kind, line) ==
    CASE kind = "header"   -> IsHeaderLine(line)
      [] kind = "source"   -> IsSourceLine(line)
      [] kind = "packages" -> IsPackageListLine(line)

\* C3: the parser is a strict three-state cycle: in each state a line that is
\* not of the awaited kind (header, source, package list) is rejected with a
\* parse error; in particular a header line is rejected while a source line
\* is awaited.
C3_StrictCycle ==
    [][(ppc = "loop" /\ Len(stdout_lines') = Len(stdout_lines) + 1
            /\ ~IsOfKind(Awaited(parser), stdout_lines'[Len(stdout_lines')]))
        => ppc' = "raised"]_vars

\* the i-th line of a stream is of the kind its position in the cycle asks for
LinesInCycleOrder(lines) ==
    \A i \in 1..Len(lines) :
        IsOfKind(CASE i % 3 = 1 -> "header"
                   [] i % 3 = 2 -> "source"
                   [] i % 3 = 0 -> "packages", lines[i])

IsCompleteCycles(lines) == Len(lines) % 3 = 0 /\ LinesInCycleOrder(lines)
EndsMidCycle(lines) == Len(lines) % 3 # 0 /\ LinesInCycleOrder(lines)

KeyOfHeader(line) == SubSeq(line, Len(RosdepHeaderPrefix) + 1, Len(line) - 1)

\* C4: a stream of N complete (header, source, package-list) cycles parses
\* into exactly N records, in stream order, each with the key and the source
\* of its own cycle; a stream that ends after a header or after a source line
\* raises a parse error and returns nothing.
C4_CompleteCyclesParse ==
    /\ (ppc \in {"returned", "raised"} /\ IsCompleteCycles(stdout_lines)) =>
        /\ ppc = "returned"
        /\ Len(parser.resolved) = Len(stdout_lines) \div 3
        /\ \A i \in 1..Len(parser.resolved) :
            /\ parser.resolved[i].key = KeyOfHeader(stdout_lines[3 * i - 2])
            /\ parser.resolved[i].source = Tail(stdout_lines[3 * i - 1])
    /\ (ppc \in {"returned", "raised"} /\ EndsMidCycle(stdout_lines)) =>
        ppc = "raised"

C4_Witness ==
    /\ ppc = "returned"
    /\ stdout_lines = <<HdrA, SrcApt, Pkgs2, HdrB, SrcApt, Pkgs1>>
    /\ Len(parser.resolved) = 2

\* C14: for a package-list line of k >= 1 tokens separated by whitespace, the
\* packages of the record are exactly those k tokens in their order: no token
\* is dropped, for every k, also for k >= 3.
C14_AllTokensKept ==
    ppc = "returned" =>
        /\ Len(stdout_lines) = 3 * Len(parser.resolved)
        /\ \A i \in 1..Len(parser.resolved) :
            parser.resolved[i].packages = Split(stdout_lines[3 * i])

(***************************************************************************)
(* Claims about on_lock_command                                            *)
(***************************************************************************)
\* every key of keys is in exactly one of the two sets
InExactlyOne(keys, source_names, system_names) ==
    \A k \in keys : (k \in source_names) # (k \in system_names)

\* C1: in every Lockfile the lock command produces, whatever the key listing,
\* the catalog build and the system resolver returned, every original
\* dependency key is in exactly one of rosdistro_packages and system_packages.
C1_LockfileClosure ==
    lockfile # None =>
        InExactlyOne(rosdeps, DOMAIN lockfile[1].rosdistro_packages,
                     DOMAIN lockfile[1].system_packages)

\* C2: the partition of the dependency keys gives source keys and system keys
\* that are disjoint and whose union is the set of keys, for any key set and
\* any catalog.
C2_PartitionIsExact ==
    pc = "partitioned" =>
        /\ rosdistro_keys \cap system_keys = {}
        /\ rosdistro_keys \cup system_keys = rosdeps

C2_Witness ==
    /\ pc = "partitioned"
    /\ rosdeps = {KeyA, KeyC}
    /\ \E pkg \in all_packages : pkg.name \notin rosdeps
    /\ rosdistro_keys = {KeyA}
    /\ system_keys = {KeyC}

\* C8: before the Lockfile is built and written, the assembler checks that every
\* original key is in exactly one of the two resolved maps, and fails with a
\* validation error when that is violated.
C8_AssemblerValidatesClosure ==
    [][(/\ pc = "resolved"
        /\ ~InExactlyOne(rosdeps,
                {pkg.name : pkg \in resolved_rosdistro_packages},
                {resolved_system_keys[i].key : i \in 1..Len(resolved_system_keys)}))
        => pc' = "failed"]_vars

\* the place of a step in on_lock_command
StepRank(step) ==
    CASE step = "start"       -> 0
      [] step = "discovered"  -> 1
      [] step = "listed"      -> 2
      [] step = "partitioned" -> 3
      [] step = "resolved"    -> 4
      [] step = "assembled"   -> 5
      [] step = "opened"      -> 6
      [] step = "failed"      -> 7

\* C15: in every run of the lock command the steps happen in the order
\* inventory and key listing, catalog build and partition, system-key
\* resolution, assembly, writing; no step is taken twice; the lock file is
\* touched only when all earlier steps have succeeded, so a failure in an
\* earlier step leaves an existing mojodep.lock as it was.
C15_StepsInOrder ==
    /\ [][pc' # pc => (pc' = "failed" \/ StepRank(pc') = StepRank(pc) + 1)]_vars
    /\ [][lock_file_on_disk' # lock_file_on_disk =>
            /\ pc = "assembled"
            /\ lockfile # None]_vars
    /\ [](StepRank(pc) <= 5 => lock_file_on_disk \in {None, Some(OldLockFile)})
    /\ [][(pc' = "failed" /\ StepRank(pc) <= 5) =>
            lock_file_on_disk' = lock_file_on_disk]_vars

\* the system-key resolution failed and the lock file of an earlier run is
\* still there
C15_Witness ==
    /\ pc = "failed"
    /\ system_keys # {}
    /\ resolved_system_keys = <<>>
    /\ lockfile = None
    /\ lock_file_on_disk = Some(OldLockFile)

(***************************************************************************)
(* Claims about the release-tag template and the extraction                *)
(***************************************************************************)
\* how often a placeholder occurs in a template
PlaceholderCount(template, placeholder) ==
    Cardinality({i \in 1..Len(template) :
                    /\ i + Len(placeholder) - 1 <= Len(template)
                    /\ \A j \in 1..Len(placeholder) :
                        template[i + j - 1] = placeholder[j]})

PackageCount == PlaceholderCount(release_repo_info.release_tag_pattern, PackagePlaceholder)
VersionCount == PlaceholderCount(release_repo_info.release_tag_pattern, VersionPlaceholder)

\* the template has been handed to the compiler
CompileAttempted ==
    \/ tpc = "loop"
    \/ tpc = "returned" /\ tags # <<>>
    \/ tpc = "raised" /\ exception # "CalledProcessError"

\* C5 as claimed: compiling a template fails with a validation error whenever
\* the template lacks {package} or lacks {version}, and succeeds for every
\* template that contains both, also when a placeholder occurs more than once.
C5_CompileSucceedsWithBoth ==
    CompileAttempted =>
        /\ (PackageCount = 0 \/ VersionCount = 0) =>
                tpc = "raised" /\ exception = "ValueError"
        /\ (PackageCount >= 1 /\ VersionCount >= 1) => tag_pattern # None

\* C5 as amended: compiling fails with a validation error whenever the
\* template lacks {package} or lacks {version}, and succeeds for every template
\* that contains each placeholder exactly once; a template in which a
\* placeholder occurs more than once does not compile (re.error).
C5_CompileSucceedsWithEachOnce ==
    CompileAttempted =>
        /\ (PackageCount = 0 \/ VersionCount = 0) =>
                tpc = "raised" /\ exception = "ValueError"
        /\ (PackageCount = 1 /\ VersionCount = 1) => tag_pattern # None
        /\ (PackageCount >= 1 /\ VersionCount >= 1 /\ PackageCount + VersionCount > 2) =>
                tpc = "raised" /\ exception = "re.error"

C5_Witness ==
    /\ tpc = "loop"
    /\ release_repo_info.release_tag_pattern =
            <<"r","-">> \o PackagePlaceholder \o VersionPlaceholder
    /\ tag_pattern # None

\* the record a matching tag stands for
RecordOfTag(elements, tag_info) ==
    LET m == re_match(elements, tag_info.tag)
    IN  ReleasedPackageVersion(
            BloomVersionNumber(int(Group(m, version_maj)), int(Group(m, version_min)),
                               int(Group(m, version_patch)),
                               int(Group(m, version_increment))),
            tag_info.tag, tag_info.ref)

MatchingTags(elements) ==
    {tags[i] : i \in {j \in 1..Len(tags) : re_match(elements, tags[j].tag) # None}}

PackageOfTag(elements, tag_info) == Group(re_match(elements, tag_info.tag), package_name)

KeysWhoseLine(Same(_)) ==
    {k \in KeySet : \E i \in 1..Len(query_keys) :
        query_keys[i] = k /\ i <= Len(query_lines) /\ Same(query_lines[i])}

IsExpectedUri(line) == line = expected_distro_uri(query_distro)

\* the line is the expected URI between leading and trailing whitespace
IsExpectedUriInWhitespace(line) ==
    LET uri == expected_distro_uri(query_distro)
    IN  \E lead \in 0..Len(line) :
            /\ lead + Len(uri) <= Len(line)
            /\ \A i \in 1..lead : IsSpace(line[i])
            /\ \A i \in 1..Len(uri) : line[lead + i] = uri[i]
            /\ \A i \in (lead + Len(uri) + 1)..Len(line) : IsSpace(line[i])

\* C9 as claimed: the query returns exactly the keys whose line is
\* string-equal to the canonical URI of the distribution; a key whose line is
\* any other string is not returned; a line count other than the key count is
\* an error.
C9_ExactStringMatch ==
    /\ wpc = "returned" => query_result = KeysWhoseLine(IsExpectedUri)
    /\ (wpc \in {"returned", "raised"} /\ query_exception # "RuntimeError"
            /\ Len(query_lines) # Len(query_keys)) =>
        wpc = "raised" /\ query_exception = "ValueError"

\* C9 as amended: the query returns exactly the keys whose line, leading and
\* trailing whitespace apart, is string-equal to the canonical URI; a key
\* whose line is any other string (another distribution's URI, the canonical
\* URI with other extra characters) is not returned; a line count other than
\* the key count is an error.
C9_MatchUpToWhitespace ==
    /\ wpc = "returned" => query_result = KeysWhoseLine(IsExpectedUriInWhitespace)
    /\ (wpc \in {"returned", "raised"} /\ query_exception # "RuntimeError"
            /\ Len(query_lines) # Len(query_keys)) =>
        wpc = "raised" /\ query_exception = "ValueError"

C9_Witness ==
    /\ wpc = "returned"
    /\ query_distro = Humble
    /\ query_keys = <<KeyA, KeyB>>
    /\ query_lines = << <<" ">> \o expected_distro_uri(Humble) \o <<"\t">>,
                        expected_distro_uri(Humble) \o <<"x">> >>
    /\ query_result = {KeyA}

(***************************************************************************)
(* Claims about extract_released_repos                                     *)
(***************************************************************************)
HasRelease(repo_data) == "release" \in DOMAIN repo_data
HasUrl(repo_data) == "url" \in DOMAIN repo_data["release"]
HasTagsRelease(repo_data) ==
    /\ "tags" \in DOMAIN repo_data["release"]
    /\ "release" \in DOMAIN repo_data["release"]["tags"]

\* C10: every declared repository is in exactly one of release_info and
\* invalid_repos: without "release" the reason is "No release data", with a
\* release without "url" it is "No release repository URL", with a url but
\* without "tags.release" it is "No release tag pattern", otherwise the
\* repository is in release_info with that url and tag pattern; a declaration
\* without "repositories" gives two empty maps.
C10_ReposClassified ==
    xpc = "returned" =>
        IF "repositories" \notin DOMAIN distro_data
        THEN extraction = RepoExtractionResult(EmptyDict, EmptyDict)
        ELSE LET repos == distro_data["repositories"]
                 valid == DOMAIN extraction.release_info
                 invalid == DOMAIN extraction.invalid_repos
             IN  /\ valid \cup invalid = DOMAIN repos
                 /\ valid \cap invalid = {}
                 /\ \A name \in DOMAIN repos :
                    IF ~HasRelease(repos[name])
                    THEN /\ name \in invalid
                         /\ extraction.invalid_repos[name] = "No release data"
                    ELSE IF ~HasUrl(repos[name])
                    THEN /\ name \in invalid
                         /\ extraction.invalid_repos[name] = "No release repository URL"
                    ELSE IF ~HasTagsRelease(repos[name])
                    THEN /\ name \in invalid
                         /\ extraction.invalid_repos[name] = "No release tag pattern"
                    ELSE /\ name \in valid
                         /\ extraction.release_info[name] =
                                ReleaseRepoInfo(repos[name]["release"]["url"],
                                    repos[name]["release"]["tags"]["release"])

\* a release with neither url nor tags.release beside a complete one
C10_Witness ==
    /\ xpc = "returned"
    /\ "repositories" \in DOMAIN distro_data
    /\ \E n, m \in DOMAIN distro_data["repositories"] :
        /\ n \in DOMAIN extraction.invalid_repos
        /\ extraction.invalid_repos[n] = "No release repository URL"
        /\ m \in DOMAIN extraction.release_info

(***************************************************************************)
(* Claims about get_or_build_released_package_cache                        *)
(***************************************************************************)
\* C7: in the catalog the release-index build returns a package name is
\* unique: when two release repositories both yield a package of one name,
\* the catalog holds exactly one entry of that name, the one of the
\* repository folded later.
C7_PackageNameUnique ==
    bpc = "returned" =>
        \A pkg \in all_packages :
            /\ \A other \in all_packages : other.name = pkg.name => other = pkg
            /\ LET yielding == {i \in 1..Len(valid_repos) :
                                    pkg.name \in DOMAIN units[i].result}
               IN  pkg = units[SetMax(yielding)].result[pkg.name]

\* the units of two repositories never yield a package of one name
NoNameYieldedTwice ==
    \A i, j \in 1..Len(units) :
        i # j => DOMAIN units[i].result \cap DOMAIN units[j].result = {}

\* the packages a repository yields for the stdout its unit was given
YieldOf(i) ==
    Values(extract_released_packages_and_versions(valid_repos[i],
                                                  units[i].stdout[1]).packages)

\* C12: the catalog of the concurrent build does not depend on the
\* scheduling: the units of the workers only return results and the
\* coordinating thread alone writes the catalog; whatever the order in which
\* the units ran and completed and in which the repositories were enumerated,
\* the catalog returned is the union of what each repository yields,
\* provided no two repositories yield a package of one name.
C12_CatalogIndependentOfSchedule ==
    /\ []((bpc = "returned" /\ NoNameYieldedTwice) =>
            /\ all_packages = UNION {YieldOf(i) : i \in 1..Len(valid_repos)}
            /\ \A pkg, other \in all_packages : other.name = pkg.name => other = pkg)
    /\ [][all_packages' # all_packages =>
            /\ units' = units
            /\ bpc = "collect"
            /\ next_result' = next_result + 1]_vars

\* two repositories with packages of different names; the unit of the second
\* was run when the catalog was returned
C12_Witness ==
    /\ bpc = "returned"
    /\ Len(valid_repos) = 2
    /\ NoNameYieldedTwice
    /\ \A i \in 1..2 : units[i].result # EmptyDict
    /\ Cardinality(all_packages) >= 2

\* C13: when the tag listing of the unit of one repository fails (non-zero
\* exit) the whole build fails: it raises, and no catalog is returned
\* whatever the order in which the other units complete; a unit that succeeds
\* with no tag is no failure and yields nothing.
C13_UnitFailureFailsBuild ==
    /\ [](bpc = "returned" => \A i \in 1..Len(units) : units[i].state = "done")
    /\ ((\E i \in 1..Len(units) : units[i].exception = "CalledProcessError")
            ~> bpc = "raised")
    /\ [](\A i \in 1..Len(units) :
            (/\ units[i].stdout # None
             /\ fetch_remote_tags(SplitLines(units[i].stdout[1])) = <<>>) =>
                units[i].state = "done" /\ units[i].result = EmptyDict)

\* the first unit succeeded with packages, the second failed after it, and
\* the build raised the failure
C13_Witness ==
    /\ bpc = "raised"
    /\ build_exception = "CalledProcessError"
    /\ Len(valid_repos) = 2
    /\ units[1].state = "done"
    /\ units[1].result # EmptyDict
    /\ all_packages # {}
    /\ units[2].exception = "CalledProcessError"
(***************************************************************************)
(* Claims about get_or_clone_rosdistro_repo                                *)
(***************************************************************************)
\* C11: get_or_clone_rosdistro_repo is idempotent over any sequence of calls:
\* when a call has returned the repository path exists; a call made while the
\* path exists returns the existing repository and clones nothing; so the
\* clones performed are at most one more than the removals of the path.
C11_GetOrCloneIdempotent ==
    /\ [](cpc = "returned" => repo_path_exists)
    /\ [](clones <= removals + 1)
    /\ [][(cpc = "called" /\ repo_path_exists) =>
            /\ cpc' = "returned"
            /\ repo' = Some("existing")
            /\ clones' = clones]_vars

\* a first call that cloned and a second call that returned the repository
C11_Witness ==
    /\ cpc = "returned"
    /\ calls = 2
    /\ removals = 0
    /\ clones = 1
    /\ repo = Some("existing")


====
